---- MODULE Spec2Model ----
(***************************************************************************)
(* Octet.fit_data (src/Octet.py): the 1:1 binding model, the piecewise     *)
(* evaluator `binding`, and the global and individual fitting branches.    *)
(*                                                                         *)
(* Representation.                                                         *)
(*  - Times are integers counted in ticks of 1/(2*SamplesPerSecond) s, so  *)
(*    that axes sampled at 10, 5 and 1 samples per second are all integer  *)
(*    valued.  dissoc_time is a whole number of seconds, as the source     *)
(*    uses dissoc_time*5 as an array index.                                *)
(*  - Responses are not computed numerically: association and dissociation *)
(*    build the term of the formula they evaluate.  Equal terms denote     *)
(*    equal floating point values; no statement below rests on two         *)
(*    different terms denoting different numbers.                          *)
(*  - The measured responses are abstract.  Whether the optimizer          *)
(*    converges on them is a nondeterministic choice, and the parameters   *)
(*    it returns are the symbols Fitted(c) of the data c they were fitted  *)
(*    to.                                                                  *)
(*  - Python sequences are indexed from 0, TLA+ sequences from 1.          *)
(***************************************************************************)
EXTENDS Integers, Sequences, FiniteSets

VARIABLES time, dissoc_time, ncols, conc_range, global_fit, binding_model,
          pc, i, kon_list, koff_list, rmax_list, popt, s, err,
          fit, split_fit, kd, failed, fits, tries

inputs == <<time, dissoc_time, ncols, conc_range, global_fit, binding_model>>
vars == <<time, dissoc_time, ncols, conc_range, global_fit, binding_model,
          pc, i, kon_list, koff_list, rmax_list, popt, s, err,
          fit, split_fit, kd, failed, fits, tries>>

\* ---------------------------------------------------------------- bounds
MaxLen == 11
MaxCh == 3
MaxDissoc == 2

\* ------------------------------------------------------ program constants
\* binding locates the transition at index dissoc_time*5
SamplesPerSecond == 5
\* binding(X, kon, koff, rmax) has three free parameters
NParams == 3

TicksPerSecond == 2 * SamplesPerSecond
Ticks(sec) == sec * TicksPerSecond

\* sampling periods in ticks: 10, 5 and 1 samples per second
Steps == {1, 2, TicksPerSecond}
Concs == {10, 50}
Models == {"1to1", "2to1"}

\* ----------------------------------------------------- sequence helpers
Indices(n) == [j \in 1..n |-> j]
Range(f) == {f[j] : j \in DOMAIN f}
Min(a, b) == IF a <= b THEN a ELSE b
Max(a, b) == IF a >= b THEN a ELSE b

RECURSIVE Flatten(_)
Flatten(ss) == IF ss = <<>> THEN <<>> ELSE Head(ss) \o Flatten(Tail(ss))

\* [item]*n
Times(item, n) == [j \in 1..n |-> item]

\* Position of index j in the increasing index sequence sel
RankIn(sel, j) == CHOOSE m \in 1..Len(sel) : sel[m] = j

\* numpy broadcasting of two one-dimensional shapes
Broadcastable(a, b) == a = b \/ a = 1 \/ b = 1

\* data['Time'] of a dataset of n samples taken every step ticks, zero-based
Axis(n, step) == [j \in 1..n |-> (j - 1) * step]

\* -------------------------------------------------------- kinetic model
None == <<"None">>
Unbound == [unbound |-> TRUE]
NoEval == [err |-> "unevaluated"]

\* curve_fit's default initial guess
p0 == [kon |-> <<"one">>, koff |-> <<"one">>, rmax |-> <<"one">>]
\* the parameters the optimizer returns for the data c
Fitted(c) == [kon |-> <<"kon", c>>, koff |-> <<"koff", c>>, rmax |-> <<"rmax", c>>]

association(t, conc, p) ==
    [fn |-> "association", t |-> t, conc |-> conc, p |-> p]

\* r0 * e**(-koff*t); e**0 is exactly 1.0
dissociation(t, r0, koff) ==
    IF t = 0 THEN r0
    ELSE [fn |-> "dissociation", t |-> t, r0 |-> r0, koff |-> koff]

\* the sample after the one at dissoc_time*5
TransitionIndexNext(d) == d * SamplesPerSecond + 1

\* dissoc_time*5, the index binding reads the transition time from
TransitionIndex(d) == d * SamplesPerSecond

\* The result of one evaluation: the exception raised, or the array returned
\* together with the intermediate values of that evaluation.
Raise(e, X, p) ==
    [err |-> e, out |-> <<>>, tx |-> 0, new_r0 |-> <<>>, dis |-> <<>>,
     X |-> X, p |-> p]

binding(X, d, p) ==
    LET conc == X.conc
        t == X.t
        n == Len(t)
        idx == TransitionIndex(d)
    IN  IF idx >= n THEN Raise("IndexError", X, p)
        ELSE
        LET tx == t[idx + 1]
            at == SelectSeq(Indices(n), LAMBDA j : t[j] = tx)
            r0 == [m \in 1..Len(at) |-> association(tx, conc[at[m]], p)]
            dis == SelectSeq(Indices(n), LAMBDA j : t[j] >= Ticks(d))
            rep == Len(dis) \div Cardinality(Range(conc))
            new_r0 == Flatten([m \in 1..Len(r0) |-> Times(r0[m], rep)])
            r0at(j) == IF Len(new_r0) = 1 THEN new_r0[1]
                       ELSE new_r0[RankIn(dis, j)]
        IN  IF ~(Len(new_r0) = Len(dis) \/ Len(new_r0) = 1)
            THEN [Raise("ValueError", X, p) EXCEPT !.tx = tx,
                                                   !.new_r0 = new_r0,
                                                   !.dis = dis]
            ELSE [err |-> "none",
                  out |-> [j \in 1..n |->
                             IF t[j] < Ticks(d)
                             THEN association(t[j], conc[j], p)
                             ELSE dissociation(t[j] - tx, r0at(j), p.koff)],
                  tx |-> tx, new_r0 |-> new_r0, dis |-> dis,
                  X |-> X, p |-> p]

\* ------------------------------------------------------------ curve_fit
\* The outcomes of scipy's curve_fit(binding, X, ydata) with ny = len(ydata):
\* an exception of the model function or of the residual's shape propagates;
\* otherwise the optimizer converges or raises RuntimeError.
curve_fit(X, ny, d, c) ==
    LET b == binding(X, d, p0)
    IN  IF b.err # "none" THEN {[err |-> b.err, popt |-> Unbound]}
        ELSE IF ~Broadcastable(Len(b.out), ny)
        THEN {[err |-> "ValueError", popt |-> Unbound]}
        ELSE IF Max(Len(b.out), ny) < NParams
        THEN {[err |-> "TypeError", popt |-> Unbound]}
        ELSE {[err |-> "none", popt |-> Fitted(c)],
              [err |-> "RuntimeError", popt |-> Unbound]}

\* popt[1]/popt[0]
Kd(p) == <<"div", p.koff, p.kon>>

\* chunks starting one sample late: range(1, len(fit_data), len(time))
SplitLate(fit_data, n) ==
    [k \in 1..((Len(fit_data) + n - 2) \div n) |->
        SubSeq(fit_data, (k - 1) * n + 2, Min(k * n + 1, Len(fit_data)))]

\* [fit_data[i:i + len(time)] for i in range(0, len(fit_data), len(time))]
Split(fit_data, n) ==
    [k \in 1..((Len(fit_data) + n - 1) \div n) |->
        SubSeq(fit_data, (k - 1) * n + 1, Min(k * n, Len(fit_data)))]

\* combo_X of the global branch
GlobalX ==
    [conc |-> Flatten([k \in 1..Len(conc_range) |-> Times(conc_range[k], Len(time))]),
     t |-> Flatten([k \in 1..Len(conc_range) |-> time])]

\* combo_X of the individual branch
ChannelX(conc) == [conc |-> Times(conc, Len(time)), t |-> time]

\* zip(columns, conc_range) stops at the shorter of the two
NPairs == Min(ncols, Len(conc_range))

\* ----------------------------------------------------------------- Init
Init ==
    /\ \E n \in 1..MaxLen, step \in Steps : time = Axis(n, step)
    /\ dissoc_time \in 0..MaxDissoc
    /\ ncols \in 1..MaxCh
    /\ \E n \in 0..MaxCh : conc_range \in [1..n -> Concs]
    /\ global_fit \in BOOLEAN
    /\ binding_model \in Models
    /\ pc = "start"
    /\ i = 1
    /\ kon_list = <<>>
    /\ koff_list = <<>>
    /\ rmax_list = <<>>
    /\ popt = Unbound
    /\ s = "unbound"
    /\ err = "none"
    /\ fit = NoEval
    /\ split_fit = <<>>
    /\ kd = None
    /\ failed = <<>>
    /\ fits = 0
    /\ tries = <<>>

\* -------------------------------------------------------------- actions
\* if global_fit == True: ... else: ..., each guarded by binding_model == '1to1'
Dispatch ==
    /\ pc = "start"
    /\ pc' = IF binding_model # "1to1" THEN "return"
             ELSE IF global_fit THEN "global" ELSE "indiv"
    /\ UNCHANGED <<inputs, i, kon_list, koff_list, rmax_list, popt, s, err,
                   fit, split_fit, kd, failed, fits, tries>>

\* Whether the plotting calls that follow a fit complete: none is made after
\* a failed fit.
Plotting(r) == IF r.err = "none" THEN BOOLEAN ELSE {FALSE}

\* a failed global regression caught and reported as the individual branch
\* does, the call going on to its return
GlobalFailureCaught(r) ==
    /\ pc' = "return"
    /\ err' = "none"
    /\ popt' = [kon |-> None, koff |-> None, rmax |-> None]
    /\ UNCHANGED <<kd, split_fit, s>>

\* curve_fit of the global branch is in no try block: its exception ends
\* the call
GlobalFailure(r) ==
    /\ pc' = "error"
    /\ err' = r.err
    /\ UNCHANGED <<popt, kd, split_fit, s>>

\* the global branch: one regression over all channels, Kd print, split, plots
GlobalFit ==
    /\ pc = "global"
    /\ \E r \in curve_fit(GlobalX, ncols * Len(time), dissoc_time, "all") :
        \E plotted \in Plotting(r) :
        /\ fits' = fits + 1
        /\ IF r.err # "none"
           THEN /\ GlobalFailure(r)
                /\ tries' = Append(tries, r.err)
                /\ fit' = binding(GlobalX, dissoc_time, p0)
           ELSE /\ popt' = r.popt
                /\ kd' = Kd(r.popt)
                /\ fit' = binding(GlobalX, dissoc_time, r.popt)
                /\ split_fit' = Split(fit'.out, Len(time))
                /\ IF plotted
                   THEN /\ s' = "plot"
                        /\ pc' = "return"
                        /\ err' = "none"
                        /\ tries' = Append(tries, "ok")
                   ELSE /\ s' = "unbound"
                        /\ pc' = "error"
                        /\ err' = "PlotError"
                        /\ tries' = Append(tries, "PlotError")
    /\ UNCHANGED <<inputs, i, kon_list, koff_list, rmax_list, failed>>

\* one iteration of the individual branch's loop, its try and except
IndividualFit ==
    /\ pc = "indiv"
    /\ i <= NPairs
    /\ LET conc == conc_range[i]
           X == ChannelX(conc)
       IN \E r \in curve_fit(X, Len(time), dissoc_time, i) :
          \E plotted \in Plotting(r) :
            /\ fits' = fits + 1
            /\ IF r.err # "none"
               THEN /\ fit' = binding(X, dissoc_time, p0)
                    /\ kon_list' = Append(kon_list, None)
                    /\ koff_list' = Append(koff_list, None)
                    /\ rmax_list' = Append(rmax_list, None)
                    /\ failed' = Append(failed, conc)
                    /\ tries' = Append(tries, r.err)
                    /\ UNCHANGED <<popt, s>>
               ELSE /\ popt' = r.popt
                    /\ fit' = binding(X, dissoc_time, r.popt)
                    /\ IF plotted
                       THEN /\ kon_list' = Append(kon_list, r.popt.kon)
                            /\ koff_list' = Append(koff_list, r.popt.koff)
                            /\ rmax_list' = Append(rmax_list, r.popt.rmax)
                            /\ s' = "plot"
                            /\ tries' = Append(tries, "ok")
                            /\ UNCHANGED failed
                       ELSE /\ kon_list' = kon_list \o <<r.popt.kon, None>>
                            /\ koff_list' = koff_list \o <<r.popt.koff, None>>
                            /\ rmax_list' = rmax_list \o <<r.popt.rmax, None>>
                            /\ failed' = Append(failed, conc)
                            /\ tries' = Append(tries, "PlotError")
                            /\ UNCHANGED s
    /\ i' = i + 1
    /\ UNCHANGED <<inputs, pc, err, split_fit, kd>>

\* popt = pd.DataFrame({'Kon':kon_list,'Koff':koff_list,'Rmax':rmax_list})
IndividualFrame ==
    /\ pc = "indiv"
    /\ i > NPairs
    /\ popt' = [Kon |-> kon_list, Koff |-> koff_list, Rmax |-> rmax_list]
    /\ pc' = "return"
    /\ UNCHANGED <<inputs, i, kon_list, koff_list, rmax_list, s, err,
                   fit, split_fit, kd, failed, fits, tries>>

\* return popt, s
Return ==
    /\ pc = "return"
    /\ IF popt = Unbound \/ s = "unbound"
       THEN pc' = "error" /\ err' = "UnboundLocalError"
       ELSE pc' = "done" /\ err' = "none"
    /\ UNCHANGED <<inputs, i, kon_list, koff_list, rmax_list, popt, s,
                   fit, split_fit, kd, failed, fits, tries>>

Next == Dispatch \/ GlobalFit \/ IndividualFit \/ IndividualFrame \/ Return

Spec == Init /\ [][Next]_vars

\* ------------------------------------------------------------ predicates
Supported == binding_model = "1to1"
Finished == pc \in {"done", "error"}
ShapesMatch == Len(conc_range) = ncols
\* dissoc_time lies strictly inside the span of the time axis
StrictlyInside ==
    /\ time[1] < Ticks(dissoc_time)
    /\ Ticks(dissoc_time) < time[Len(time)]
\* sample j is taken at j/5 s
FiveHz == \A j \in 1..Len(time) : time[j] * SamplesPerSecond = (j - 1) * TicksPerSecond
\* an input the fit is meant for
WellFormed == ShapesMatch /\ StrictlyInside /\ FiveHz

\* the piecewise prediction of section 4.1 for sample j of the input X
Predict(X, j, d, p) ==
    IF X.t[j] < Ticks(d)
    THEN association(X.t[j], X.conc[j], p)
    ELSE dissociation(X.t[j] - Ticks(d), association(Ticks(d), X.conc[j], p), p.koff)

\* C3: in Global mode a regression that does not converge ends the call in
\* an error: no parameters, no Kd, no fitted curves, no plot, and the
\* regression has run once only.
C3_GlobalFailureIsFatal ==
    (global_fit /\ tries # <<>> /\ tries[1] = "RuntimeError") =>
        /\ pc = "error"
        /\ err = "RuntimeError"
        /\ popt = Unbound
        /\ kd = None
        /\ split_fit = <<>>
        /\ s = "unbound"
        /\ fits = 1

C3_Witness ==
    /\ global_fit
    /\ ShapesMatch
    /\ ncols > 1
    /\ tries = <<"RuntimeError">>
    /\ pc = "error"

\* C7: in Global mode, for a concentration list as long as the channel list,
\* the fitted curve is split into one segment per channel, each of length
\* len(time); segment k holds, in time order, the predictions for the pairs
\* (concentration k, time), and is the curve binding computes for channel k
\* alone wherever that evaluation returns.
C7_SplitInvertsConcatenation ==
    (global_fit /\ ShapesMatch /\ tries = <<"ok">>) =>
        /\ Len(split_fit) = ncols
        /\ \A k \in 1..Len(split_fit) :
            /\ Len(split_fit[k]) = Len(time)
            /\ \A j \in 1..Len(time) :
                /\ split_fit[k][j] = fit.out[(k - 1) * Len(time) + j]
                /\ fit.X.conc[(k - 1) * Len(time) + j] = conc_range[k]
                /\ fit.X.t[(k - 1) * Len(time) + j] = time[j]
            /\ LET alone == binding(ChannelX(conc_range[k]), dissoc_time, popt)
               IN  alone.err = "none" => split_fit[k] = alone.out

C7_Witness ==
    /\ global_fit
    /\ ShapesMatch
    /\ tries = <<"ok">>
    /\ ncols >= 2
    /\ StrictlyInside
    /\ Len(fit.dis) >= 2 * ncols
    /\ Len(fit.dis) < Len(fit.out)

C1_IndividualNeverAborts ==
    (~global_fit /\ Supported /\ WellFormed /\ Finished
        /\ \A k \in 1..Len(tries) : tries[k] \in {"ok", "RuntimeError"}) =>
        /\ pc = "done"
        /\ Len(tries) = ncols

\* C2: in Individual mode the Kon, Koff and Rmax lists end with one slot per
\* channel, slot k holding channel k's fitted value or None, whichever step
\* of the try block failed.
C2_OneSlotPerChannel ==
    (~global_fit /\ Supported /\ WellFormed /\ pc # "start" /\ i > NPairs) =>
        /\ Len(kon_list) = ncols
        /\ Len(koff_list) = ncols
        /\ Len(rmax_list) = ncols
        /\ \A k \in 1..Len(kon_list) :
            /\ kon_list[k] \in {None, Fitted(k).kon}
            /\ koff_list[k] \in {None, Fitted(k).koff}
            /\ rmax_list[k] \in {None, Fitted(k).rmax}

\* C4: when the concentration list and the channel list differ in length,
\* the call ends in an input-shape error before any regression is run and
\* returns nothing.
C4_ShapeMismatchRejected ==
    (Supported /\ ~ShapesMatch /\ conc_range # <<>> /\ StrictlyInside /\ FiveHz) =>
        /\ fits = 0
        /\ pc # "done"
        /\ pc = "error" => err = "InputShapeError"

\* C5: when dissoc_time is not strictly inside the span of the time axis
\* (here an axis at 5 samples per second with a sample per parameter at
\* least) the call ends in an input-shape error; the model is not evaluated
\* and no regression is run.
C5_DissocTimeOutsideRejected ==
    (Supported /\ ShapesMatch /\ FiveHz /\ Len(time) >= NParams
        /\ ~StrictlyInside) =>
        /\ fit = NoEval
        /\ fits = 0
        /\ pc # "done"
        /\ pc = "error" => err = "InputShapeError"

\* C8: every fit result carries its Kd: one for the dataset in Global mode,
\* one per channel, None for a failed one, in Individual mode.
C8_ResultCarriesKd ==
    pc = "done" =>
        IF global_fit
        THEN kd = Kd(popt)
        ELSE /\ "Kd" \in DOMAIN popt
             /\ Len(popt.Kd) = ncols

\* C9: for a binding model other than '1to1' the call ends in an explicit
\* unsupported-model error, before any regression or plot.
C9_UnsupportedModelRejected ==
    (~Supported /\ Finished) =>
        /\ pc = "error"
        /\ err = "UnsupportedModel"
        /\ fits = 0

\* C10: on the combined input of several channels, duplicates among the
\* concentrations included, binding returns a prediction in which every
\* sample at or after dissoc_time uses the r0 of its own concentration, and
\* there are as many r0 values as such samples.
C10_R0OfOwnChannel ==
    (global_fit /\ StrictlyInside /\ fit # NoEval /\ fit.err # "IndexError") =>
        /\ fit.err = "none"
        /\ Len(fit.new_r0) = Len(fit.dis)
        /\ \A m \in 1..Len(fit.dis) :
            fit.new_r0[m] = association(fit.tx, fit.X.conc[fit.dis[m]], fit.p)

====
